---- MODULE Spec2Model ----
(***************************************************************************)
(* Model of src/multi_classify.py: evaluation of a multi-label classifier  *)
(* whose predictions are free text.                                        *)
(*                                                                         *)
(* Strings are sequences of one-character strings.  The module is ASCII,   *)
(* so every CJK character of the source is written as one token holding    *)
(* its pinyin: the two characters of the literal of line 37 are "zheng"    *)
(* and "chang", and the third character shared by the seven names of       *)
(* all_classes is "she".  A whitespace character with no escape is written *)
(* as one token holding its code point, "U+3000".  A token is one          *)
(* character of the text.                                                  *)
(***************************************************************************)
EXTENDS Integers, Sequences, FiniteSets, TLC

VARIABLES
    pc,               \* position of the run (main) or of the single call
    args,             \* arguments of the function a single-call specification applies
    ret,              \* what that call returned
    excel,            \* contents of the ground-truth workbook (input)
    json_file,        \* lines of the prediction file (input)
    Y_true,           \* main: the truth matrix, once loaded
    line_num,         \* load_pred_labels_from_json: 1-based number of the next line
    pred_labels,      \* load_pred_labels_from_json: the list being built
    src_lines,        \* history: the line number each entry of pred_labels came from
    main_pred_labels, \* main: the list load_pred_labels_from_json returned
    Y_pred,           \* main: the encoded prediction matrix
    files,            \* names of the output files written so far
    results,          \* the metrics evaluate computed
    stdout,           \* everything printed so far, in order
    error             \* the exception that ended the run, if any

vars == <<pc, args, ret, excel, json_file, Y_true, line_num, pred_labels,
          src_lines, main_pred_labels, Y_pred, files, results, stdout, error>>

run_vars == <<excel, json_file, Y_true, line_num, pred_labels, src_lines,
              main_pred_labels, Y_pred, files, results, stdout, error>>

\* a variable of the run that is not bound yet, and one bound to v; the two
\* are told apart by the field some
None == [some |-> FALSE]
Bound(v) == [some |-> TRUE, v |-> v]
Raised(type, what, n_true, n_pred) ==
    [type |-> type, what |-> what, n_true |-> n_true, n_pred |-> n_pred]

NoError == Raised("none", "", 0, 0)

Range(s) == {s[i] : i \in DOMAIN s}

----------------------------------------------------------------------------
(* Program constants *)

all_classes ==
    << <<"chi", "hen", "she">>, <<"lie", "wen", "she">>, <<"yu", "dian", "she">>,
       <<"bo", "tai", "she">>, <<"ni", "tai", "she">>, <<"bao", "tai", "she">>,
       <<"hui", "hei", "she">> >>

\* the literal of line 37, the label that is dropped silently
Sentinel == <<"zheng", "chang">>

\* the characters str.strip() removes when it is given no argument: the 29
\* code points for which str.isspace() is true.  Those with no escape of
\* their own are written as one token holding the code point.
Whitespace ==
    {"\t", "\n", "U+000B", "\f", "\r", "U+001C", "U+001D", "U+001E", "U+001F",
     " ", "U+0085", "U+00A0", "U+1680", "U+2000", "U+2001", "U+2002", "U+2003",
     "U+2004", "U+2005", "U+2006", "U+2007", "U+2008", "U+2009", "U+200A",
     "U+2028", "U+2029", "U+202F", "U+205F", "U+3000"}

----------------------------------------------------------------------------
(* Python values: a str, None or an int, as json.loads may put under a key *)

PyStr(s) == [type |-> "str", str |-> s, int |-> 0]
PyInt(n) == [type |-> "int", str |-> <<>>, int |-> n]
PyNone == [type |-> "NoneType", str |-> <<>>, int |-> 0]

\* `not v`
falsy(v) ==
    \/ v.type = "NoneType"
    \/ v.type = "str" /\ v.str = <<>>
    \/ v.type = "int" /\ v.int = 0

----------------------------------------------------------------------------
(* str methods *)

RECURSIVE lstrip(_, _)
lstrip(s, chars) ==
    IF s # <<>> /\ Head(s) \in chars THEN lstrip(Tail(s), chars) ELSE s

RECURSIVE rstrip(_, _)
rstrip(s, chars) ==
    IF s # <<>> /\ s[Len(s)] \in chars
    THEN rstrip(SubSeq(s, 1, Len(s) - 1), chars)
    ELSE s

strip(s, chars) == rstrip(lstrip(s, chars), chars)

RECURSIVE split(_, _)
split(s, sep) ==
    IF \E i \in 1..Len(s) : s[i] = sep
    THEN LET i == CHOOSE k \in 1..Len(s) :
                      s[k] = sep /\ \A j \in 1..(k - 1) : s[j] # sep
         IN <<SubSeq(s, 1, i - 1)>> \o split(SubSeq(s, i + 1, Len(s)), sep)
    ELSE <<s>>

startswith(s, prefix) ==
    Len(s) >= Len(prefix) /\ SubSeq(s, 1, Len(prefix)) = prefix

endswith(s, suffix) ==
    Len(s) >= Len(suffix) /\ SubSeq(s, Len(s) - Len(suffix) + 1, Len(s)) = suffix

----------------------------------------------------------------------------
(* parse_labels *)

is_marked_startonly(line) == startswith(line, <<"*", "*">>)

\* line 32
is_marked(line) ==
    startswith(line, <<"*", "*">>) /\ endswith(line, <<"*", "*">>)

\* line 34
extract_label(line) == strip(strip(line, {"*"}), Whitespace)

is_ignored_never(label) == FALSE

\* line 37: the one label that is not in classes and is not recorded
is_ignored(label) == label = Sentinel

\* lines 31-38, one iteration of the loop
parse_line(acc, raw, classes) ==
    LET line == strip(raw, Whitespace) IN
    IF is_marked(line)
    THEN LET label == extract_label(line) IN
         IF label \in classes
         THEN [acc EXCEPT !.labels = Append(@, label)]
         ELSE IF ~is_ignored(label)
              THEN [acc EXCEPT !.unknown_labels = @ \cup {label}]
              ELSE acc
    ELSE acc

RECURSIVE parse_lines(_, _, _)
parse_lines(acc, lines, classes) ==
    IF lines = <<>>
    THEN acc
    ELSE parse_lines(parse_line(acc, Head(lines), classes), Tail(lines), classes)

\* lines 40-41: what the call prints
print_unknown(unknown_labels) ==
    IF unknown_labels # {}
    THEN <<[kind |-> "unknown_labels", labels |-> unknown_labels]>>
    ELSE <<>>

\* lines 11-43.  text is a Python value, classes a set of strings.  The
\* result carries the returned list, the local set unknown_labels as it is
\* when the call ends, what the call printed, and the exception it raised
\* (text.split on a value that is no str).
parse_labels(text, classes) ==
    IF falsy(text)
    THEN [labels |-> <<>>, unknown_labels |-> {}, printed |-> <<>>, raised |-> ""]
    ELSE IF text.type # "str"
    THEN [labels |-> <<>>, unknown_labels |-> {}, printed |-> <<>>,
          raised |-> "AttributeError"]
    ELSE LET acc == parse_lines([labels |-> <<>>, unknown_labels |-> {}],
                                split(text.str, "\n"), classes)
         IN [labels |-> acc.labels, unknown_labels |-> acc.unknown_labels,
             printed |-> print_unknown(acc.unknown_labels), raised |-> ""]

----------------------------------------------------------------------------
(* MultiLabelBinarizer(classes=...).fit_transform, lines 194-195.  With     *)
(* classes given, fit keeps them in the given order; transform maps each    *)
(* label to its column through a dict, collects the columns of a row in a   *)
(* set, and writes 1 in them.  A label outside classes is left out (with a  *)
(* warning).                                                                *)

class_to_index_reversed(classes) ==
    [c \in Range(classes) |->
        Len(classes) + 1 - (CHOOSE i \in 1..Len(classes) : classes[i] = c)]

\* dict(zip(classes_, range(len(classes_)))), columns counted from 1
class_to_index(classes) ==
    [c \in Range(classes) |-> CHOOSE i \in 1..Len(classes) : classes[i] = c]

\* the set of columns of one row
row_index(labels, class_mapping) ==
    {class_mapping[l] : l \in Range(labels) \cap DOMAIN class_mapping}

fit_transform(y, classes) ==
    LET class_mapping == class_to_index(classes) IN
    [r \in 1..Len(y) |->
        [i \in 1..Len(classes) |->
            IF i \in row_index(y[r], class_mapping) THEN 1 ELSE 0]]

----------------------------------------------------------------------------
(* Metrics.  A float is kept exact, as the fraction num/den.                *)

Frac(n, d) == [num |-> n, den |-> d]

\* 0.0
Zero == Frac(0, 1)

FracEq(a, b) == a.num * b.den = b.num * a.den

RECURSIVE SumOver(_, _)
\* f[1] + ... + f[n]
SumOver(f, n) == IF n = 0 THEN 0 ELSE f[n] + SumOver(f, n - 1)

RECURSIVE Factorial(_)
Factorial(n) == IF n <= 1 THEN 1 ELSE n * Factorial(n - 1)

\* ((Y_true[:, i] == a) & (Y_pred[:, i] == b)).sum(), lines 109-112
count_cells(Yt, Yp, i, a, b) ==
    Cardinality({r \in 1..Len(Yt) : Yt[r][i] = a /\ Yp[r][i] = b})

accuracy_of_without_FN(TP, TN, FP, FN) ==
    IF TP + TN + FP > 0 THEN Frac(TP + TN, TP + TN + FP) ELSE Zero

\* line 114
accuracy_of(TP, TN, FP, FN) ==
    IF TP + TN + FP + FN > 0 THEN Frac(TP + TN, TP + TN + FP + FN) ELSE Zero

\* lines 95-117: the dict, keyed by class name (a repeated name keeps the
\* value of its last column)
compute_per_class_accuracy(Yt, Yp, classes) ==
    [cls \in Range(classes) |->
        LET i == CHOOSE k \in 1..Len(classes) :
                    classes[k] = cls /\ \A j \in 1..Len(classes) : classes[j] = cls => j <= k
        IN accuracy_of(count_cells(Yt, Yp, i, 1, 1), count_cells(Yt, Yp, i, 0, 0),
                       count_cells(Yt, Yp, i, 0, 1), count_cells(Yt, Yp, i, 1, 0))]

\* sklearn's division with zero_division left at its default: 0 where the
\* denominator is 0
prf_divide(n, d) == IF d = 0 THEN Zero ELSE Frac(n, d)

\* classification_report, line 146: the row of each class (its averaged
\* rows are derived from these)
classification_report(Yt, Yp, classes) ==
    [i \in 1..Len(classes) |->
        LET TP == count_cells(Yt, Yp, i, 1, 1)
            FP == count_cells(Yt, Yp, i, 0, 1)
            FN == count_cells(Yt, Yp, i, 1, 0)
        IN [name |-> classes[i],
            precision |-> prf_divide(TP, TP + FP),
            recall |-> prf_divide(TP, TP + FN),
            f1 |-> prf_divide(2 * TP, 2 * TP + FP + FN),
            support |-> TP + FN]]

\* hamming_loss, line 147: the share of the N*K cells that differ
hamming_loss(Yt, Yp) ==
    LET K == Len(Yt[1]) IN
    Frac(Cardinality({<<r, i>> \in (1..Len(Yt)) \X (1..K) : Yt[r][i] # Yp[r][i]}),
         Len(Yt) * K)

\* jaccard_score(average='samples'), line 148: per row tp / (tp + fp + fn),
\* 0 where that denominator is 0 (zero_division is left at its default),
\* averaged over the rows.  The row scores are brought to the common
\* denominator K!.
jaccard_score(Yt, Yp) ==
    LET K == Len(Yt[1])
        D == Factorial(K)
        tp(r) == Cardinality({i \in 1..K : Yt[r][i] = 1 /\ Yp[r][i] = 1})
        un(r) == Cardinality({i \in 1..K : Yt[r][i] = 1 \/ Yp[r][i] = 1})
        score == [r \in 1..Len(Yt) |->
                     LET q == prf_divide(tp(r), un(r)) IN q.num * (D \div q.den)]
    IN Frac(SumOver(score, Len(Yt)), Len(Yt) * D)

\* accuracy_score, line 149: the share of rows that are equal
accuracy_score(Yt, Yp) ==
    Frac(Cardinality({r \in 1..Len(Yt) : Yt[r] = Yp[r]}), Len(Yt))

\* lines 119-173.  The result carries the files written, in order, and the
\* values the report is formatted from.
evaluate(Yt, Yp, classes) ==
    [files |-> <<"true_labels.xlsx", "pred_labels.xlsx", "evaluation_report.txt">>,
     report |-> classification_report(Yt, Yp, classes),
     hamming |-> hamming_loss(Yt, Yp),
     jaccard |-> jaccard_score(Yt, Yp),
     subset_acc |-> accuracy_score(Yt, Yp),
     per_class_acc |-> compute_per_class_accuracy(Yt, Yp, classes)]

----------------------------------------------------------------------------
(* Specification of one call of parse_labels on every short text *)

MaxTextLen == 6

\* the marker character, the space, the ideographic space, the line break,
\* a category character and the two characters of the sentinel
Alphabet == {"*", " ", "U+3000", "\n", "A", "zheng", "chang"}

Texts == UNION {[1..n -> Alphabet] : n \in 0..MaxTextLen}

\* a vocabulary of one name, and one that also holds the empty name
Vocabularies == {{<<"A">>}, {<<"A">>, <<>>}}

IdleRun ==
    /\ excel = None /\ json_file = <<>> /\ Y_true = None /\ line_num = 0
    /\ pred_labels = <<>> /\ src_lines = <<>> /\ main_pred_labels = None
    /\ Y_pred = None /\ files = {} /\ results = None /\ stdout = <<>>
    /\ error = NoError

InitParse ==
    /\ pc = "parse_labels"
    /\ \E t \in Texts, V \in Vocabularies : args = [text |-> PyStr(t), classes |-> V]
    /\ ret = None
    /\ IdleRun

Call_parse_labels ==
    /\ pc = "parse_labels"
    /\ ret' = parse_labels(args.text, args.classes)
    /\ pc' = "returned_parse_labels"
    /\ UNCHANGED <<args, run_vars>>

NextParse == Call_parse_labels

SpecParse == InitParse /\ [][NextParse]_vars

----------------------------------------------------------------------------
(* Claims about parse_labels.  The vocabulary of the claims' sentences is   *)
(* written here with index arithmetic, independently of the operators       *)
(* above.                                                                   *)

Marker == <<"*", "*">>

\* the lines of a text: its maximal segments free of the newline
LinesOf(t) ==
    LET breaks == {0, Len(t) + 1} \cup {i \in 1..Len(t) : t[i] = "\n"}
    IN {SubSeq(t, a + 1, b - 1) :
          <<a, b>> \in {p \in breaks \X breaks :
                          /\ p[1] < p[2]
                          /\ \A k \in breaks : ~(p[1] < k /\ k < p[2])}}

\* s without its leading and trailing run of characters of chars
Trimmed(s, chars) ==
    LET keep == {i \in 1..Len(s) : s[i] \notin chars}
    IN IF keep = {}
       THEN <<>>
       ELSE SubSeq(s, CHOOSE i \in keep : \A j \in keep : i <= j,
                      CHOOSE i \in keep : \A j \in keep : i >= j)

\* a trimmed line begins and ends with the two-character marker
HasMarker(t) ==
    /\ Len(t) >= 2
    /\ SubSeq(t, 1, 2) = Marker
    /\ SubSeq(t, Len(t) - 1, Len(t)) = Marker

\* the content left when exactly one marker is removed at each end
TwoCharContent(t) == Trimmed(SubSeq(t, 3, Len(t) - 2), Whitespace)

\* the content left when every leading and trailing asterisk is removed
StarFreeContent(t) == Trimmed(Trimmed(t, {"*"}), Whitespace)

MarkedLines(text) ==
    {t \in {Trimmed(l, Whitespace) : l \in LinesOf(text)} : HasMarker(t)}

ParseReturned == pc = "returned_parse_labels"

\* C2 as stated: parse_labels returns a category c of V iff some line,
\* trimmed, begins and ends with the marker and the content left after
\* removing that leading and trailing two-character marker and trimming is
\* non-empty and equals c; a text with no marked line yields no label and no
\* unknown token.
C2_TwoCharMarkerStripped ==
    ParseReturned =>
        /\ \A c \in args.classes :
              c \in Range(ret.labels) <=>
                 \E t \in MarkedLines(args.text.str) :
                    TwoCharContent(t) # <<>> /\ TwoCharContent(t) = c
        /\ MarkedLines(args.text.str) = {} =>
              ret.labels = <<>> /\ ret.unknown_labels = {} /\ ret.printed = <<>>

\* C2 amended: parse_labels returns a category c of V iff some line, trimmed,
\* begins and ends with the marker and the content left after removing ALL
\* leading and trailing asterisks and then trimming whitespace equals c;
\* every returned label is a category of V; a text with no marked line
\* yields no label and no unknown token.
C2_AllAsterisksStripped ==
    ParseReturned =>
        /\ \A c \in args.classes :
              c \in Range(ret.labels) <=>
                 \E t \in MarkedLines(args.text.str) : StarFreeContent(t) = c
        /\ Range(ret.labels) \subseteq args.classes
        /\ MarkedLines(args.text.str) = {} =>
              ret.labels = <<>> /\ ret.unknown_labels = {} /\ ret.printed = <<>>

\* C2 witness: a line of three asterisks, the category and two asterisks was
\* parsed and gave the category
C2_Witness ==
    /\ ParseReturned
    /\ args.text.str = <<"*", "*", "*", "A", "*", "*">>
    /\ ret.labels = << <<"A">> >>

\* C3: for every marked line whose stripped content t is not in the
\* vocabulary: the sentinel is added neither to the labels nor to the
\* unknown tokens, any other t is an unknown token and never a label; a text
\* whose marked lines all hold the sentinel yields no label and no unknown
\* token.
C3_SentinelDroppedUnknownRecorded ==
    ParseReturned =>
        /\ \A t \in MarkedLines(args.text.str) :
              LET c == StarFreeContent(t) IN
              c \notin args.classes =>
                 /\ c \notin Range(ret.labels)
                 /\ c = Sentinel => c \notin ret.unknown_labels
                 /\ c # Sentinel =>
                       /\ c \in ret.unknown_labels
                       /\ ret.printed =
                             <<[kind |-> "unknown_labels",
                                labels |-> ret.unknown_labels]>>
        /\ ( /\ MarkedLines(args.text.str) # {}
             /\ \A t \in MarkedLines(args.text.str) : StarFreeContent(t) = Sentinel )
           => ret.labels = <<>> /\ ret.unknown_labels = {} /\ ret.printed = <<>>

\* C3 witness: the sentinel alone on a marked line was parsed
C3_Witness ==
    /\ ParseReturned
    /\ args.text.str = <<"*", "*", "zheng", "chang", "*", "*">>
    /\ ret.labels = <<>>
    /\ ret.unknown_labels = {}

\* a trimmed line that is the marker pair around an empty or blank interior
BlankInterior(t) ==
    /\ Len(t) >= 4
    /\ HasMarker(t)
    /\ \A i \in 3..(Len(t) - 2) : t[i] \in Whitespace

\* C8: a line that is only the marker pair around an empty or blank
\* interior adds nothing: the empty string is neither a label nor an unknown
\* token of the text.
C8_EmptyInteriorIgnored ==
    ( /\ ParseReturned
      /\ \E t \in MarkedLines(args.text.str) : BlankInterior(t) )
    => /\ <<>> \notin Range(ret.labels)
       /\ <<>> \notin ret.unknown_labels

----------------------------------------------------------------------------
(* Specification of one call of the encoder on every short list of label    *)
(* lists                                                                    *)

MaxRecords == 2
MaxLabels == 2

\* ordered vocabularies, in several orders
EncodeVocabularies ==
    { << <<"A">>, <<"B">>, <<"C">> >>, << <<"C">>, <<"A">>, <<"B">> >>,
      << <<"B">>, <<"A">> >>, << <<"A">> >> }

SeqsUpTo(S, n) == UNION {[1..k -> S] : k \in 0..n}

InitEncode ==
    /\ pc = "fit_transform"
    /\ \E V \in EncodeVocabularies :
          \E y \in SeqsUpTo(SeqsUpTo(Range(V), MaxLabels), MaxRecords) :
             args = [y |-> y, classes |-> V]
    /\ ret = None
    /\ IdleRun

Call_fit_transform ==
    /\ pc = "fit_transform"
    /\ ret' = fit_transform(args.y, args.classes)
    /\ pc' = "returned_fit_transform"
    /\ UNCHANGED <<args, run_vars>>

NextEncode == Call_fit_transform

SpecEncode == InitEncode /\ [][NextEncode]_vars

\* the categories whose bit is 1
Decode(row, classes) == {classes[i] : i \in {k \in 1..Len(classes) : row[k] = 1}}

\* C4: the encoded matrix has one row per list, in input order, and one
\* column per category, in vocabulary order; each cell is 0 or 1; cell (r, i)
\* is 1 iff V[i] occurs in list r; decoding a row gives back exactly the set
\* of labels of that list.
C4_EncodeRoundTrip ==
    pc = "returned_fit_transform" =>
        /\ Len(ret) = Len(args.y)
        /\ \A r \in 1..Len(args.y) :
              /\ Len(ret[r]) = Len(args.classes)
              /\ \A i \in 1..Len(args.classes) :
                    /\ ret[r][i] \in {0, 1}
                    /\ ret[r][i] = 1 <=>
                          \E j \in 1..Len(args.y[r]) : args.y[r][j] = args.classes[i]
              /\ Decode(ret[r], args.classes) = Range(args.y[r])

\* C4 witness: a list that repeats one label, under a vocabulary whose order
\* is not the alphabetical one, was encoded as a single bit
C4_Witness ==
    /\ pc = "returned_fit_transform"
    /\ args.classes = << <<"C">>, <<"A">>, <<"B">> >>
    /\ args.y = << << <<"B">>, <<"B">> >>, << <<"A">>, <<"C">> >> >>
    /\ ret = << <<0, 0, 1>>, <<1, 1, 0>> >>

----------------------------------------------------------------------------
(* Specification of one call of compute_per_class_accuracy, or of evaluate, *)
(* on every pair of small 0/1 matrices of the same shape.  evaluate is      *)
(* applied to matrices of at least one row and two columns, the shape for   *)
(* which the library metrics take the multilabel path.                      *)

MaxClasses == 2
MaxSamples == 2

Matrices(N, K) == [1..N -> [1..K -> {0, 1}]]

InitMetrics ==
    /\ \E K \in 1..MaxClasses, N \in 0..MaxSamples :
          \E Yt \in Matrices(N, K), Yp \in Matrices(N, K) :
             /\ args = [Y_true |-> Yt, Y_pred |-> Yp, classes |-> SubSeq(all_classes, 1, K)]
             /\ \/ pc = "compute_per_class_accuracy"
                \/ N >= 1 /\ K >= 2 /\ pc = "evaluate"
    /\ ret = None
    /\ IdleRun

Call_compute_per_class_accuracy ==
    /\ pc = "compute_per_class_accuracy"
    /\ ret' = compute_per_class_accuracy(args.Y_true, args.Y_pred, args.classes)
    /\ pc' = "returned_compute_per_class_accuracy"
    /\ UNCHANGED <<args, run_vars>>

Call_evaluate ==
    /\ pc = "evaluate"
    /\ ret' = evaluate(args.Y_true, args.Y_pred, args.classes)
    /\ pc' = "returned_evaluate"
    /\ UNCHANGED <<args, run_vars>>

NextMetrics == Call_compute_per_class_accuracy \/ Call_evaluate

SpecMetrics == InitMetrics /\ [][NextMetrics]_vars

\* C5: with N > 0 rows, compute_per_class_accuracy gives (TP_i + TN_i) / N
\* for column i, TP_i and TN_i counting the rows where truth and prediction
\* are both 1, both 0; with N = 0 it gives 0.0 for every category.
C5_PerClassAccuracy ==
    pc = "returned_compute_per_class_accuracy" =>
        LET N == Len(args.Y_true) IN
        /\ DOMAIN ret = Range(args.classes)
        /\ \A i \in 1..Len(args.classes) :
              LET acc == ret[args.classes[i]]
                  TP == Cardinality({r \in 1..N :
                            args.Y_true[r][i] = 1 /\ args.Y_pred[r][i] = 1})
                  TN == Cardinality({r \in 1..N :
                            args.Y_true[r][i] = 0 /\ args.Y_pred[r][i] = 0})
              IN /\ acc.den > 0
                 /\ N > 0 => acc.num * N = (TP + TN) * acc.den
                 /\ N = 0 => acc.num = 0

\* C5 witness: two rows, one class right in one row and wrong in the other
C5_Witness ==
    /\ pc = "returned_compute_per_class_accuracy"
    /\ Len(args.Y_true) = 2
    /\ \E c \in DOMAIN ret : ret[c] = Frac(1, 2)

\* the similarity of one row as C7 defines it, times scale
ClaimedRowJaccard(t, p, scale) ==
    LET K == Len(t)
        inter == {i \in 1..K : t[i] = 1 /\ p[i] = 1}
        union == {i \in 1..K : t[i] = 1 \/ p[i] = 1}
    IN IF union = {}
       THEN scale
       ELSE (Cardinality(inter) * scale) \div Cardinality(union)

\* C7: the sample-averaged Jaccard score evaluate reports is the mean over
\* the rows of |truth /\ pred| / |truth \/ pred|, a row whose two label sets
\* are empty counting as 1.0.
C7_JaccardEmptyRowsCountOne ==
    pc = "returned_evaluate" =>
        LET N == Len(args.Y_true)
            D == Factorial(Len(args.classes))
            claimed == [r \in 1..N |->
                           ClaimedRowJaccard(args.Y_true[r], args.Y_pred[r], D)]
        IN FracEq(ret.jaccard, Frac(SumOver(claimed, N), N * D))

----------------------------------------------------------------------------
(* Inputs of a run of main *)

MaxLines == 3
MaxRows == 3

\* the labels of ground-truth sample r
TruthLabels(r) ==
    IF r % 3 = 1 THEN {all_classes[1]}
    ELSE IF r % 3 = 2 THEN {}
    ELSE {all_classes[1], all_classes[2]}

Reverse(s) == [i \in 1..Len(s) |-> s[Len(s) + 1 - i]]

\* column layouts of the workbook: the classes in order; an extra column
\* and the classes in another order; one class column absent
ColumnLayouts ==
    { all_classes,
      << <<"i", "d">> >> \o Reverse(all_classes),
      SubSeq(all_classes, 1, Len(all_classes) - 1) }

Workbook(columns, N) ==
    [columns |-> columns,
     rows |-> [r \in 1..N |->
                 [j \in 1..Len(columns) |->
                     IF columns[j] \in TruthLabels(r) THEN 1 ELSE 0]]]

\* the workbooks of a run: at least one sample (on an empty truth matrix the
\* outcome of the library metrics of lines 146-149 depends on the library
\* version)
Workbooks == {Workbook(cols, N) : cols \in ColumnLayouts, N \in 1..MaxRows}

JsonLine(kind, has_predict, predict) ==
    [kind |-> kind, has_predict |-> has_predict, predict |-> predict]

Bold(name) == <<"*", "*">> \o name \o <<"*", "*">>

\* the lines a prediction file is made of
SampleLines ==
    { \* not JSON (a truncated or blank line)
      JsonLine("invalid", FALSE, PyNone),
      \* JSON, but an array
      JsonLine("list", FALSE, PyNone),
      \* an object without the key 'predict'
      JsonLine("dict", FALSE, PyNone),
      \* an object whose 'predict' is a number
      JsonLine("dict", TRUE, PyInt(5)),
      \* two classes, the first one twice
      JsonLine("dict", TRUE,
               PyStr(Bold(all_classes[1]) \o <<"\n">> \o Bold(all_classes[2])
                     \o <<"\n">> \o Bold(all_classes[1]))),
      \* the sentinel
      JsonLine("dict", TRUE, PyStr(Bold(Sentinel))),
      \* one class and one unknown token, with a form feed, an ideographic
      \* space and a no-break space around them
      JsonLine("dict", TRUE,
               PyStr(<<"\f">> \o Bold(all_classes[1]) \o <<"U+3000", "\n">>
                     \o <<"*", "*", "U+00A0">> \o <<"wei", "zhi">> \o <<"*", "*">>)) }

----------------------------------------------------------------------------
(* The run of main *)

\* json.loads(line), line 84
json_loads(line) ==
    IF line.kind = "invalid"
    THEN [raised |-> "JSONDecodeError", type |-> "", has_predict |-> FALSE,
          predict |-> PyNone]
    ELSE [raised |-> "", type |-> line.kind, has_predict |-> line.has_predict,
          predict |-> line.predict]

\* data.get('predict', ''), line 89
get_predict(data) == IF data.has_predict THEN data.predict ELSE PyStr(<<>>)

\* lines 56-66
load_true_labels_from_excel(book, classes) ==
    LET missing == {i \in 1..Len(classes) : classes[i] \notin Range(book.columns)}
        col(c) == CHOOSE j \in 1..Len(book.columns) : book.columns[j] = c
    IN IF missing # {}
       THEN [raised |-> "ValueError", value |-> None]
       ELSE [raised |-> "",
             value |-> [r \in 1..Len(book.rows) |->
                          [i \in 1..Len(classes) |-> book.rows[r][col(classes[i])]]]]

counts_differ_if_fewer(n_true, n_pred) == n_pred < n_true

\* the test of line 190
counts_differ(n_true, n_pred) == n_true # n_pred

Init ==
    /\ pc = "load_true"
    /\ args = None
    /\ ret = None
    /\ excel \in Workbooks
    /\ json_file \in SeqsUpTo(SampleLines, MaxLines)
    /\ Y_true = None
    /\ line_num = 0
    /\ pred_labels = <<>>
    /\ src_lines = <<>>
    /\ main_pred_labels = None
    /\ Y_pred = None
    /\ files = {}
    /\ results = None
    /\ stdout = <<>>
    /\ error = NoError

\* lines 182-183
LoadTrue ==
    /\ pc = "load_true"
    /\ LET loaded == load_true_labels_from_excel(excel, all_classes) IN
       IF loaded.raised # ""
       THEN /\ error' = Raised("ValueError", "missing_column", 0, 0)
            /\ pc' = "done"
            /\ UNCHANGED <<Y_true, stdout>>
       ELSE /\ Y_true' = Bound(loaded.value)
            /\ stdout' = Append(stdout, [kind |-> "true_loaded", n |-> Len(loaded.value)])
            /\ pc' = "load_pred"
            /\ UNCHANGED error
    /\ UNCHANGED <<args, ret, excel, json_file, line_num, pred_labels, src_lines,
                   main_pred_labels, Y_pred, files, results>>

\* lines 82-91: one iteration of the loop over the lines of the file
ReadLine ==
    /\ pc = "load_pred"
    /\ line_num < Len(json_file)
    /\ line_num' = line_num + 1
    /\ LET data == json_loads(json_file[line_num + 1]) IN
       IF data.raised = "JSONDecodeError"
       THEN \* lines 85-87
            /\ stdout' = Append(stdout, [kind |-> "json_decode_error",
                                         line_num |-> line_num + 1])
            /\ UNCHANGED <<pc, pred_labels, src_lines, error>>
       ELSE IF data.type # "dict"
       THEN \* line 89: the value has no method get
            /\ error' = Raised("AttributeError", "get", 0, 0)
            /\ pc' = "done"
            /\ UNCHANGED <<pred_labels, src_lines, stdout>>
       ELSE LET parsed == parse_labels(get_predict(data), Range(all_classes)) IN
            IF parsed.raised # ""
            THEN \* line 29: the value has no method split
                 /\ error' = Raised(parsed.raised, "split", 0, 0)
                 /\ pc' = "done"
                 /\ UNCHANGED <<pred_labels, src_lines, stdout>>
            ELSE /\ pred_labels' = Append(pred_labels, parsed.labels)
                 /\ src_lines' = Append(src_lines, line_num + 1)
                 /\ stdout' = stdout \o parsed.printed
                 /\ UNCHANGED <<pc, error>>
    /\ UNCHANGED <<args, ret, excel, json_file, Y_true, main_pred_labels, Y_pred,
                   files, results>>

\* lines 93 and 186-187: the loop is over, the list is returned and counted
PredLoaded ==
    /\ pc = "load_pred"
    /\ line_num = Len(json_file)
    /\ main_pred_labels' = Bound(pred_labels)
    /\ stdout' = Append(stdout, [kind |-> "pred_loaded", n |-> Len(pred_labels)])
    /\ pc' = "check"
    /\ UNCHANGED <<args, ret, excel, json_file, Y_true, line_num, pred_labels,
                   src_lines, Y_pred, files, results, error>>

\* lines 190-191
CheckCounts ==
    /\ pc = "check"
    /\ IF counts_differ(Len(Y_true.v), Len(main_pred_labels.v))
       THEN /\ error' = Raised("ValueError", "sample_count", Len(Y_true.v),
                               Len(main_pred_labels.v))
            /\ pc' = "done"
       ELSE /\ pc' = "encode"
            /\ UNCHANGED error
    /\ UNCHANGED <<args, ret, excel, json_file, Y_true, line_num, pred_labels,
                   src_lines, main_pred_labels, Y_pred, files, results, stdout>>

\* lines 194-195
Encode ==
    /\ pc = "encode"
    /\ Y_pred' = Bound(fit_transform(main_pred_labels.v, all_classes))
    /\ pc' = "evaluate"
    /\ UNCHANGED <<args, ret, excel, json_file, Y_true, line_num, pred_labels,
                   src_lines, main_pred_labels, files, results, stdout, error>>

\* line 198
Evaluate ==
    /\ pc = "evaluate"
    /\ LET e == evaluate(Y_true.v, Y_pred.v, all_classes) IN
       /\ files' = files \cup Range(e.files)
       /\ results' = Bound([report |-> e.report, hamming |-> e.hamming,
                            jaccard |-> e.jaccard, subset_acc |-> e.subset_acc,
                            per_class_acc |-> e.per_class_acc])
       /\ stdout' = stdout \o [i \in 1..Len(e.files) |->
                                  [kind |-> "saved", file |-> e.files[i]]]
    /\ pc' = "done"
    /\ UNCHANGED <<args, ret, excel, json_file, Y_true, line_num, pred_labels,
                   src_lines, main_pred_labels, Y_pred, error>>

Next == LoadTrue \/ ReadLine \/ PredLoaded \/ CheckCounts \/ Encode \/ Evaluate

Spec == Init /\ [][Next]_vars

----------------------------------------------------------------------------
(* Claims about the run *)

IsUnknownDiag(e) == e.kind = "unknown_labels"
IsDecodeDiag(e) == e.kind = "json_decode_error"

\* the run got its list of predictions back from the loading pass
PredReturned == main_pred_labels.some

AlignmentError(n, m) == Raised("ValueError", "sample_count", n, m)

\* C1: when the truth has N rows and the loaded prediction list M # N rows,
\* the run ends in the alignment error naming N and M, and nothing was
\* encoded, computed or written; when M = N there is no alignment error.
\* Encoding, metrics and output files exist only in runs with M = N.
C1_AlignmentCheckedFirst ==
    /\ ( /\ PredReturned
         /\ pc # "check"
         /\ Len(Y_true.v) # Len(main_pred_labels.v) )
       => /\ pc = "done"
          /\ error = AlignmentError(Len(Y_true.v), Len(main_pred_labels.v))
          /\ ~Y_pred.some
          /\ files = {}
          /\ ~results.some
    /\ (PredReturned /\ Len(Y_true.v) = Len(main_pred_labels.v)) => error = NoError
    /\ (Y_pred.some \/ files # {} \/ results.some) =>
          PredReturned /\ Len(Y_true.v) = Len(main_pred_labels.v)

\* C1 witness: a run ended in the alignment error with more predictions
\* than truth rows
C1_Witness ==
    /\ pc = "done"
    /\ error.type = "ValueError"
    /\ error.what = "sample_count"
    /\ error.n_true < error.n_pred
    /\ files = {}

\* a line that is a record: a JSON object whose 'predict', when present, is
\* text
WellFormedRecord(line) ==
    /\ line.kind = "dict"
    /\ line.has_predict => line.predict.type \in {"str", "NoneType"}

RECURSIVE LineNumbersWhere(_, _)
\* the numbers of the first n lines of the file that satisfy P, ascending
LineNumbersWhere(P(_), n) ==
    IF n = 0 THEN <<>>
    ELSE LineNumbersWhere(P, n - 1) \o (IF P(json_file[n]) THEN <<n>> ELSE <<>>)

NotWellFormed(line) == ~WellFormedRecord(line)

\* C6: a line that is not a well-formed record is skipped with a diagnostic
\* carrying its line number and never aborts the pass: once the truth is
\* loaded the pass always reaches the end of the file and returns one label
\* list per well-formed record, in file order.
C6_MalformedLineSkipped ==
    /\ error.type # "AttributeError"
    /\ pc \in {"check", "encode", "evaluate", "done"} /\ Y_true.some =>
          /\ PredReturned
          /\ src_lines = LineNumbersWhere(WellFormedRecord, Len(json_file))
          /\ Len(main_pred_labels.v) = Len(src_lines)
          /\ SelectSeq(stdout, IsDecodeDiag) =
                [i \in 1..Len(LineNumbersWhere(NotWellFormed, Len(json_file))) |->
                    [kind |-> "json_decode_error",
                     line_num |-> LineNumbersWhere(NotWellFormed, Len(json_file))[i]]]

\* C9: extraction of one record has no side effect: over a whole file the
\* unknown-token diagnostic is emitted at most once, and only after the last
\* line of the file was processed, never once per record.
C9_DiagnosticOncePerFile ==
    LET diags == SelectSeq(stdout, IsUnknownDiag) IN
    /\ Len(diags) <= 1
    /\ diags # <<>> => line_num = Len(json_file)

\* C10: with L lines in the file, S of them skipped for JSON decode errors,
\* and N truth rows: the loaded list has L - S rows; when N = L and S >= 1
\* the run ends in the alignment error and no metric is computed; metrics
\* are computed with S >= 1 only when N = L - S, and then every prediction
\* row that comes from a line after the first skipped one sits at a row
\* index that differs from its line number.
C10_SkippedLinesShiftRows ==
    LET L == Len(json_file)
        skipped == SelectSeq(stdout, IsDecodeDiag)
        S == Len(skipped)
    IN (pc = "done" /\ Y_true.some) =>
          LET N == Len(Y_true.v) IN
          /\ PredReturned => Len(main_pred_labels.v) = L - S
          /\ (N = L /\ S >= 1) => error = AlignmentError(N, L - S) /\ ~results.some
          /\ (results.some /\ S >= 1) =>
                /\ N = L - S
                /\ \A r \in 1..Len(src_lines) :
                      src_lines[r] > skipped[1].line_num => src_lines[r] # r

====
